---- MODULE Spec2Model ----
(***************************************************************************)
(* Model of src/server/portal/websocket.py: WebSocketProtocol, the         *)
(* per-connection adapter between a websocket transport and the portal     *)
(* session handler.                                                        *)
(*                                                                         *)
(* The class keeps no lifecycle field of its own; what the model records   *)
(* is what the handlers do to their collaborators: the calls made on the   *)
(* session handler (connect, disconnect, data_in), the lines handed to     *)
(* sendLine, the calls to transport.loseconnection, the messages given to  *)
(* log_trace, and the exception that left the most recent handler.         *)
(*                                                                         *)
(* Text is a sequence of one-character strings.  Python values (what       *)
(* json.loads returns, what is passed as text= and oob=) are tagged        *)
(* records [t, v].                                                         *)
(***************************************************************************)
EXTENDS Integers, Sequences, FiniteSets

(***************************************************************************)
(* Python values                                                           *)
(***************************************************************************)
PyNone == [t |-> "none", v |-> <<>>]
\* a keyword argument that the call does not pass
Absent == [t |-> "absent", v |-> <<>>]
Str(chars) == [t |-> "str", v |-> chars]
Num(digits) == [t |-> "num", v |-> digits]
Arr(items) == [t |-> "arr", v |-> items]
\* members: a sequence of [k |-> chars, val |-> value], in source order
Obj(members) == [t |-> "obj", v |-> members]

Q == "\""
Digits == {"0", "1", "2", "3", "4", "5", "6", "7", "8", "9"}
NullText == <<"n", "u", "l", "l">>

(***************************************************************************)
(* json.loads: a recursive-descent decoder for the JSON used on the wire   *)
(* (strings without escapes, unsigned integers, null, arrays, objects,     *)
(* blanks between tokens).  A result is [ok, val, nxt]; ok = FALSE is the  *)
(* ValueError json.loads raises.                                           *)
(***************************************************************************)
Fail == [ok |-> FALSE, val |-> PyNone, nxt |-> 0]
Ok(val, nxt) == [ok |-> TRUE, val |-> val, nxt |-> nxt]

RECURSIVE SkipWs(_, _)
SkipWs(s, i) ==
    IF i <= Len(s) /\ s[i] = " " THEN SkipWs(s, i + 1) ELSE i

RECURSIVE ScanDigits(_, _)
ScanDigits(s, i) ==
    IF i <= Len(s) /\ s[i] \in Digits THEN ScanDigits(s, i + 1) ELSE i

\* the index of the closing quote at or after i, 0 when there is none
RECURSIVE ScanQuote(_, _)
ScanQuote(s, i) ==
    IF i > Len(s) THEN 0
    ELSE IF s[i] = Q THEN i
    ELSE ScanQuote(s, i + 1)

\* s[i] is the opening quote
ParseString(s, i) ==
    LET j == ScanQuote(s, i + 1)
    IN  IF j = 0 THEN Fail ELSE Ok(Str(SubSeq(s, i + 1, j - 1)), j + 1)

RECURSIVE ParseValue(_, _)
RECURSIVE ParseItems(_, _, _)
RECURSIVE ParseMembers(_, _, _)

ParseValue(s, i) ==
    IF i > Len(s) THEN Fail
    ELSE IF s[i] = Q THEN ParseString(s, i)
    ELSE IF s[i] \in Digits
         THEN LET j == ScanDigits(s, i) IN Ok(Num(SubSeq(s, i, j - 1)), j)
    ELSE IF s[i] = "n"
         THEN IF i + 3 <= Len(s) /\ SubSeq(s, i, i + 3) = NullText
              THEN Ok(PyNone, i + 4)
              ELSE Fail
    ELSE IF s[i] = "["
         THEN LET j == SkipWs(s, i + 1)
              IN  IF j <= Len(s) /\ s[j] = "]"
                  THEN Ok(Arr(<<>>), j + 1)
                  ELSE ParseItems(s, j, <<>>)
    ELSE IF s[i] = "{"
         THEN LET j == SkipWs(s, i + 1)
              IN  IF j <= Len(s) /\ s[j] = "}"
                  THEN Ok(Obj(<<>>), j + 1)
                  ELSE ParseMembers(s, j, <<>>)
    ELSE Fail

\* i is where the next element starts; acc holds the elements decoded so far
ParseItems(s, i, acc) ==
    LET r == ParseValue(s, i)
    IN  IF ~r.ok THEN Fail
        ELSE LET j == SkipWs(s, r.nxt)
                 acc2 == Append(acc, r.val)
             IN  IF j > Len(s) THEN Fail
                 ELSE IF s[j] = "," THEN ParseItems(s, SkipWs(s, j + 1), acc2)
                 ELSE IF s[j] = "]" THEN Ok(Arr(acc2), j + 1)
                 ELSE Fail

\* i is where the next key starts; acc holds the members decoded so far
ParseMembers(s, i, acc) ==
    IF i > Len(s) \/ s[i] # Q THEN Fail
    ELSE LET k == ParseString(s, i)
         IN  IF ~k.ok THEN Fail
             ELSE LET c == SkipWs(s, k.nxt)
                  IN  IF c > Len(s) \/ s[c] # ":" THEN Fail
                      ELSE LET r == ParseValue(s, SkipWs(s, c + 1))
                           IN  IF ~r.ok THEN Fail
                               ELSE LET j == SkipWs(s, r.nxt)
                                        acc2 == Append(acc, [k |-> k.val.v, val |-> r.val])
                                    IN  IF j > Len(s) THEN Fail
                                        ELSE IF s[j] = ","
                                             THEN ParseMembers(s, SkipWs(s, j + 1), acc2)
                                        ELSE IF s[j] = "}" THEN Ok(Obj(acc2), j + 1)
                                        ELSE Fail

\* the whole text must be one value, blanks around it allowed
json_loads(s) ==
    LET r == ParseValue(s, SkipWs(s, 1))
    IN  IF r.ok /\ SkipWs(s, r.nxt) = Len(s) + 1 THEN r ELSE Fail

(***************************************************************************)
(* json.dumps with its default separators ", " and ": "                    *)
(***************************************************************************)
RECURSIVE json_dumps(_)
RECURSIVE DumpItems(_)
RECURSIVE DumpMembers(_)

json_dumps(v) ==
    CASE v.t = "str" -> <<Q>> \o v.v \o <<Q>>
      [] v.t = "num" -> v.v
      [] v.t = "arr" -> <<"[">> \o DumpItems(v.v) \o <<"]">>
      [] v.t = "obj" -> <<"{">> \o DumpMembers(v.v) \o <<"}">>
      [] OTHER -> NullText

DumpItems(items) ==
    IF Len(items) = 0 THEN <<>>
    ELSE IF Len(items) = 1 THEN json_dumps(items[1])
    ELSE json_dumps(items[1]) \o <<",", " ">> \o DumpItems(Tail(items))

DumpMembers(ms) ==
    IF Len(ms) = 0 THEN <<>>
    ELSE LET m == <<Q>> \o ms[1].k \o <<Q, ":", " ">> \o json_dumps(ms[1].val)
         IN  IF Len(ms) = 1 THEN m ELSE m \o <<",", " ">> \o DumpMembers(Tail(ms))


(***************************************************************************)
(* Python slices: string[:n] and string[n:] never fail on short strings    *)
(***************************************************************************)
Take(s, n) == SubSeq(s, 1, IF n < Len(s) THEN n ELSE Len(s))
Drop(s, n) == SubSeq(s, n + 1, Len(s))

\* the truth value Python gives a text-or-None argument ("if reason:",
\* "text if text else ...")
Truthy(val) == val.t = "str" /\ Len(val.v) > 0

(***************************************************************************)
(* Inputs.  Inbound frames, as the transport delivers them.                *)
(***************************************************************************)
\* the empty frame
F_empty == <<>>
\* OO
F_short == <<"O", "O">>
\* look
F_look == <<"l", "o", "o", "k">>
\* oob[]
F_lower == <<"o", "o", "b", "[", "]">>
\* " OOB[]", a blank before the prefix
F_blank == <<" ", "O", "O", "B", "[", "]">>
\* OOB
F_bare == <<"O", "O", "B">>
\* OOBnotjson
F_notjson == <<"O", "O", "B", "n", "o", "t", "j", "s", "o", "n">>
\* OOBviously
F_viously == <<"O", "O", "B", "v", "i", "o", "u", "s", "l", "y">>
\* OOB[["f",
F_trunc == <<"O", "O", "B", "[", "[", "\"", "f", "\"", ",">>
\* OOB{}
F_object == <<"O", "O", "B", "{", "}">>
\* OOB5
F_scalar == <<"O", "O", "B", "5">>
\* OOB"f"
F_string == <<"O", "O", "B", "\"", "f", "\"">>
\* OOBnull
F_null == <<"O", "O", "B", "n", "u", "l", "l">>
\* OOB[]
F_none == <<"O", "O", "B", "[", "]">>
\* OOB["f",[1],{}]
F_single == <<"O", "O", "B", "[", "\"", "f", "\"", ",", "[", "1", "]", ",", "{", "}", "]">>
\* OOB[["f",[1],{}]]
F_one == <<"O", "O", "B", "[", "[", "\"", "f", "\"", ",", "[", "1", "]", ",", "{", "}", "]", "]">>
\* OOB[["f",[1,2],{}],["g",[],{"x":1}]]
F_two == <<"O", "O", "B", "[", "[", "\"", "f", "\"", ",", "[", "1", ",", "2", "]", ",", "{", "}", "]", ",", "[", "\"", "g", "\"", ",", "[", "]", ",", "{", "\"", "x", "\"", ":", "1", "}", "]", "]">>
\* OOB[["h",[],{}], ["f",[],{}], ["g",[],{}]]
F_three == <<"O", "O", "B", "[", "[", "\"", "h", "\"", ",", "[", "]", ",", "{", "}", "]", ",", " ", "[", "\"", "f", "\"", ",", "[", "]", ",", "{", "}", "]", ",", " ", "[", "\"", "g", "\"", ",", "[", "]", ",", "{", "}", "]", "]">>
\* OOB[["f",[],{}],5]
F_mixed == <<"O", "O", "B", "[", "[", "\"", "f", "\"", ",", "[", "]", ",", "{", "}", "]", ",", "5", "]">>
Frames == {F_empty, F_short, F_look, F_lower, F_blank, F_bare, F_notjson, F_viously, F_trunc, F_object, F_scalar, F_string, F_null, F_none, F_single, F_one, F_two, F_three, F_mixed}

\* the reserved 3-character prefix of line 74
OOB == <<"O", "O", "B">>

\* Outbound text.  "{r" and "{n" are markup tokens, "U+D83D" is a code point
\* the connection's encoding cannot represent, "{?" is a token on which the
\* markup transform fails.
T_hi == <<"{r", "h", "i", "{n">>
T_bye == <<"b", "y", "e">>
T_bad == <<"h", "U+D83D">>
T_odd == <<"h", "{?">>
Texts == {PyNone, Str(T_hi), Str(T_bad), Str(T_odd)}

\* oob= payloads as msg() callers give them: a bare command name, and a list
\* of (cmdname, args, kwargs)
P_cmd == Str(<<"f">>)
P_list ==
    Arr(<< Arr(<<Str(<<"f">>), Arr(<<Num(<<"1">>)>>), Obj(<<>>)>>),
           Arr(<<Str(<<"g">>), Arr(<<>>),
                 Obj(<<[k |-> <<"x">>, val |-> Num(<<"1">>)]>>)>>) >>)
OobArgs == <<Absent, P_cmd, P_list>>

\* reason= of disconnect(): None, empty, a text, a text that cannot be
\* encoded, a text that cannot be transformed
Reasons == {PyNone, Str(<<>>), Str(T_bye), Str(T_bad), Str(T_odd)}
\* the reason the transport hands to connectionLost (the code ignores it)
TransportReason == Str(<<"c", "l", "o", "s", "e", "d">>)

\* the number of handler calls followed after connectionMade
MaxOps == 2
\* the number of frames followed when only frames arrive
MaxFrames == 3

(***************************************************************************)
(* Collaborators outside src/, modelled by their contract                  *)
(***************************************************************************)
Unencodable == {"U+D83D"}
EncodeError == <<"E", "r", "r", "o", "r", ":", " ", "U", "n", "i", "c", "o", "d", "e">>

\* src.utils.utils.to_str(text, encoding=self.encoding): the text in the
\* connection's encoding (the same code units for the ASCII used here), or an
\* exception whose str() is err
to_str(text) ==
    IF \E i \in 1..Len(text) : text[i] \in Unencodable
    THEN [ok |-> FALSE, val |-> <<>>, err |-> EncodeError]
    ELSE [ok |-> TRUE, val |-> text, err |-> <<>>]

\* the texts on which parse_html raises instead of returning
Untransformable == {"{?"}
parse_html_raises(text) == \E i \in 1..Len(text) : text[i] \in Untransformable

\* src.utils.text2html.parse_html(text, strip_ansi): markup tokens are
\* translated to html tags, or removed in strip mode
RECURSIVE parse_html(_, _)
parse_html(text, strip_ansi) ==
    IF Len(text) = 0 THEN <<>>
    ELSE LET c == Head(text)
             out == IF c = "{r" THEN IF strip_ansi THEN <<>> ELSE <<"<span>">>
                    ELSE IF c = "{n" THEN IF strip_ansi THEN <<>> ELSE <<"</span>">>
                    ELSE <<c>>
         IN  out \o parse_html(Tail(text), strip_ansi)

\* sessionhandler.oobstruct_parser(oob): the ordered structure
\* ((cmdname, args, kwargs), ...) built from what the caller gave
oobstruct_parser(oob) ==
    IF oob.t = "str" THEN Arr(<<Arr(<<oob, Arr(<<>>), Obj(<<>>)>>)>>) ELSE oob

(***************************************************************************)
(* State                                                                   *)
(***************************************************************************)
VARIABLES
    registered,     \* calls to sessionhandler.connect(self)
    unregistered,   \* calls to sessionhandler.disconnect(self)
    released,       \* calls to transport.loseconnection()
    routed,         \* the calls to sessionhandler.data_in, in order
    wire,           \* the lines given to sendLine, in order
    logged,         \* the values reported through log_trace, in order
    escaped,        \* the exception that left the most recent handler
    events,         \* the kinds of the calls made on the collaborators, in order
    last            \* the most recent handler call and the state it started in

vars == <<registered, unregistered, released, routed, wire, logged, escaped,
          events, last>>

\* what a handler sees when it starts
Entry ==
    [routed |-> routed, wire |-> wire, logged |-> logged,
     unregistered |-> unregistered, released |-> released, escaped |-> "none",
     events |-> events]

NoCall ==
    [op |-> "none", text |-> PyNone, oob |-> Absent, raw |-> FALSE,
     nomarkup |-> FALSE, n |-> 0, routed0 |-> 0, wire0 |-> 0, logged0 |-> 0,
     unregistered0 |-> 0, released0 |-> 0, events0 |-> 0,
     op0 |-> "none", escaped0 |-> "none"]

Init ==
    /\ registered = 0
    /\ unregistered = 0
    /\ released = 0
    /\ routed = <<>>
    /\ wire = <<>>
    /\ logged = <<>>
    /\ escaped = "none"
    /\ events = <<>>
    /\ last = NoCall

(***************************************************************************)
(* The calls the handlers make                                             *)
(***************************************************************************)
\* self.sendLine(line): one line to the transport
sendLine(st, line) ==
    [st EXCEPT !.wire = Append(@, line), !.events = Append(@, "sendLine")]

\* log_trace(msg): the diagnostic, identified by the value formatted into it
log_trace(st, oobdata) ==
    [st EXCEPT !.logged = Append(@, oobdata), !.events = Append(@, "log_trace")]

\* data_in, lines 91-95: forwards text and keyword arguments unchanged
data_in(st, text, oob) ==
    [st EXCEPT !.routed = Append(@, [text |-> text, oob |-> oob]),
               !.events = Append(@, "data_in")]

\* RouteEach walking the decoded list from its end
RECURSIVE RouteEach_reversed(_, _)
RouteEach_reversed(st, oobdata) ==
    IF Len(oobdata) = 0 THEN st
    ELSE RouteEach_reversed(data_in(st, PyNone, oobdata[Len(oobdata)]),
                            SubSeq(oobdata, 1, Len(oobdata) - 1))

\* the loop of lines 79-80
RECURSIVE RouteEach(_, _)
RouteEach(st, oobdata) ==
    IF Len(oobdata) = 0 THEN st
    ELSE RouteEach(data_in(st, PyNone, Head(oobdata)), Tail(oobdata))

\* dataReceived without the try/except of lines 76 and 85: the RuntimeError
\* of line 84 leaves the method
dataReceived_uncaught(st, string) ==
    IF Take(string, 3) = OOB
    THEN LET r == json_loads(Drop(string, 3))
         IN  IF ~r.ok THEN [st EXCEPT !.escaped = "ValueError"]
             ELSE IF r.val.t = "arr" THEN RouteEach(st, r.val.v)
             ELSE [st EXCEPT !.escaped = "RuntimeError"]
    ELSE data_in(st, Str(string), Absent)

\* dataReceived testing only the first two characters of the prefix
dataReceived_prefix2(st, string) ==
    IF Take(string, 2) = Take(OOB, 2)
    THEN LET r == json_loads(Drop(string, 3))
         IN  IF ~r.ok THEN [st EXCEPT !.escaped = "UnboundLocalError"]
             ELSE IF r.val.t = "arr" THEN RouteEach(st, r.val.v)
             ELSE log_trace(st, r.val)
    ELSE data_in(st, Str(string), Absent)

\* dataReceived handing a payload json.loads rejects to the text path
dataReceived_text_fallback(st, string) ==
    IF Take(string, 3) = OOB
    THEN LET r == json_loads(Drop(string, 3))
         IN  IF ~r.ok THEN data_in(st, Str(string), Absent)
             ELSE IF r.val.t = "arr" THEN RouteEach(st, r.val.v)
             ELSE log_trace(st, r.val)
    ELSE data_in(st, Str(string), Absent)

\* dataReceived giving up on a connection once a malformed frame was logged
dataReceived_blocked_after_error(st, string) ==
    IF Len(st.logged) > 0 THEN st
    ELSE IF Take(string, 3) = OOB
    THEN LET r == json_loads(Drop(string, 3))
         IN  IF ~r.ok THEN [st EXCEPT !.escaped = "UnboundLocalError"]
             ELSE IF r.val.t = "arr" THEN RouteEach(st, r.val.v)
             ELSE log_trace(st, r.val)
    ELSE data_in(st, Str(string), Absent)

\* dataReceived, lines 57-89
dataReceived(st, string) ==
    IF Take(string, 3) = OOB
    THEN LET r == json_loads(Drop(string, 3))
         IN  IF ~r.ok
             \* json.loads raised: the handler of line 86 formats oobdata, which
             \* was never bound, so UnboundLocalError leaves dataReceived
             \* before log_trace is called
             THEN [st EXCEPT !.escaped = "UnboundLocalError"]
             ELSE IF r.val.t = "arr" THEN RouteEach(st, r.val.v)
             \* line 82 reads oobtuple, unbound in this branch; the bare
             \* except catches that and logs (json.loads returns no tuple)
             ELSE IF r.val.t = "tuple" THEN log_trace(st, r.val)
             \* line 84 raises RuntimeError, caught at line 85
             ELSE log_trace(st, r.val)
    ELSE data_in(st, Str(string), Absent)

\* data_out handing the oob argument to json.dumps as it came, without
\* sessionhandler.oobstruct_parser
data_out_no_parser(st, text, oob, raw, nomarkup) ==
    LET conv == to_str(IF Truthy(text) THEN text.v ELSE <<>>)
        s1 == IF conv.ok THEN st ELSE sendLine(st, conv.err)
        txt == IF conv.ok THEN conv.val ELSE text.v
        s2 == IF oob.t # "absent" THEN sendLine(s1, OOB \o json_dumps(oob)) ELSE s1
    IN  IF raw THEN sendLine(s2, txt)
        ELSE IF parse_html_raises(txt) THEN [s2 EXCEPT !.escaped = "Exception"]
        ELSE sendLine(s2, parse_html(txt, nomarkup))

\* data_out never asking parse_html for strip mode
data_out_ignores_nomarkup(st, text, oob, raw, nomarkup) ==
    LET conv == to_str(IF Truthy(text) THEN text.v ELSE <<>>)
        s1 == IF conv.ok THEN st ELSE sendLine(st, conv.err)
        txt == IF conv.ok THEN conv.val ELSE text.v
        s2 == IF oob.t # "absent"
              THEN sendLine(s1, OOB \o json_dumps(oobstruct_parser(oob)))
              ELSE s1
    IN  IF raw THEN sendLine(s2, txt)
        ELSE IF parse_html_raises(txt) THEN [s2 EXCEPT !.escaped = "Exception"]
        ELSE sendLine(s2, parse_html(txt, FALSE))

\* data_out encoding the structure inside one more list
data_out_wrapped(st, text, oob, raw, nomarkup) ==
    LET conv == to_str(IF Truthy(text) THEN text.v ELSE <<>>)
        s1 == IF conv.ok THEN st ELSE sendLine(st, conv.err)
        txt == IF conv.ok THEN conv.val ELSE text.v
        s2 == IF oob.t # "absent"
              THEN sendLine(s1, OOB \o json_dumps(Arr(<<oobstruct_parser(oob)>>)))
              ELSE s1
    IN  IF raw THEN sendLine(s2, txt)
        ELSE IF parse_html_raises(txt) THEN [s2 EXCEPT !.escaped = "Exception"]
        ELSE sendLine(s2, parse_html(txt, nomarkup))

\* data_out, lines 97-120
data_out(st, text, oob, raw, nomarkup) ==
    LET conv == to_str(IF Truthy(text) THEN text.v ELSE <<>>)
        \* line 111: the failure is sent, and the method goes on with text
        \* still bound to the argument
        s1 == IF conv.ok THEN st ELSE sendLine(st, conv.err)
        txt == IF conv.ok THEN conv.val ELSE text.v
        s2 == IF oob.t # "absent"
              THEN sendLine(s1, OOB \o json_dumps(oobstruct_parser(oob)))
              ELSE s1
    IN  IF raw THEN sendLine(s2, txt)
        \* line 120 is outside the try of line 108: what parse_html raises
        \* leaves data_out
        ELSE IF parse_html_raises(txt) THEN [s2 EXCEPT !.escaped = "Exception"]
        ELSE sendLine(s2, parse_html(txt, nomarkup))

\* connectionLost, lines 48-55
connectionLost(st, reason) ==
    [st EXCEPT !.unregistered = @ + 1, !.released = @ + 1,
               !.events = @ \o <<"sessionhandler.disconnect",
                                 "transport.loseconnection">>]

\* disconnect, lines 39-46
disconnect(st, reason) ==
    LET s1 == IF Truthy(reason)
              THEN data_out(st, reason, Absent, FALSE, FALSE)
              ELSE st
    IN  IF s1.escaped # "none" THEN s1 ELSE connectionLost(s1, reason)

(***************************************************************************)
(* Actions: one per entry point the transport or the portal calls          *)
(***************************************************************************)
Call(op, text, oob, raw, nomarkup) ==
    [op |-> op, text |-> text, oob |-> oob, raw |-> raw, nomarkup |-> nomarkup,
     n |-> last.n + 1, routed0 |-> Len(routed), wire0 |-> Len(wire),
     logged0 |-> Len(logged), unregistered0 |-> unregistered,
     released0 |-> released, events0 |-> Len(events),
     op0 |-> last.op, escaped0 |-> escaped]

Commit(st, call) ==
    /\ routed' = st.routed
    /\ wire' = st.wire
    /\ logged' = st.logged
    /\ unregistered' = st.unregistered
    /\ released' = st.released
    /\ escaped' = st.escaped
    /\ events' = st.events
    /\ last' = call
    /\ UNCHANGED registered

\* connectionMade, lines 31-37
ConnectionMade ==
    /\ registered = 0
    /\ registered' = registered + 1
    /\ events' = Append(events, "sessionhandler.connect")
    /\ UNCHANGED <<unregistered, released, routed, wire, logged, escaped, last>>

Ready == registered = 1 /\ last.n < MaxOps

DataReceived ==
    /\ Ready
    /\ \E string \in Frames :
          Commit(dataReceived(Entry, string),
                 Call("dataReceived", Str(string), Absent, FALSE, FALSE))

DataOut ==
    /\ Ready
    /\ \E text \in Texts, o \in 1..Len(OobArgs), raw \in BOOLEAN, nomarkup \in BOOLEAN :
          Commit(data_out(Entry, text, OobArgs[o], raw, nomarkup),
                 Call("data_out", text, OobArgs[o], raw, nomarkup))

Disconnect ==
    /\ Ready
    /\ \E reason \in Reasons :
          Commit(disconnect(Entry, reason),
                 Call("disconnect", reason, Absent, FALSE, FALSE))

ConnectionLost ==
    /\ Ready
    /\ Commit(connectionLost(Entry, TransportReason),
              Call("connectionLost", TransportReason, Absent, FALSE, FALSE))

\* The client echoes a line the most recent data_out wrote: dataReceived of
\* that line.  The call record keeps the oob argument the line came from.
Echo ==
    /\ Ready
    /\ last.op = "data_out"
    /\ \E i \in (last.wire0 + 1)..Len(wire) :
          Commit(dataReceived(Entry, wire[i]),
                 Call("echo", Str(wire[i]), last.oob, FALSE, FALSE))

Next ==
    \/ ConnectionMade
    \/ DataReceived
    \/ DataOut
    \/ Disconnect
    \/ ConnectionLost
    \/ Echo

Spec == Init /\ [][Next]_vars

\* The inbound side alone: the transport delivers frame after frame
Receive ==
    /\ registered = 1
    /\ last.n < MaxFrames
    /\ \E string \in Frames :
          Commit(dataReceived(Entry, string),
                 Call("dataReceived", Str(string), Absent, FALSE, FALSE))

NextInbound ==
    \/ ConnectionMade
    \/ Receive

SpecInbound == Init /\ [][NextInbound]_vars

(***************************************************************************)
(* What the most recent handler call did                                   *)
(***************************************************************************)
routedNow == SubSeq(routed, last.routed0 + 1, Len(routed))
wireNow == SubSeq(wire, last.wire0 + 1, Len(wire))
loggedNow == SubSeq(logged, last.logged0 + 1, Len(logged))
eventsNow == SubSeq(events, last.events0 + 1, Len(events))

\* the connection had been disconnected before the most recent call started
WasDisconnected == last.unregistered0 > 0

\* the most recent call is dataReceived of a frame with the OOB prefix
OobFrame == last.op = "dataReceived" /\ Take(last.text.v, 3) = OOB
\* what json.loads makes of its payload
Decoded == json_loads(Drop(last.text.v, 3))

\* a (name, args, kwargs) instruction as JSON decodes it
IsInstruction(val) ==
    /\ val.t = "arr"
    /\ Len(val.v) = 3
    /\ val.v[1].t = "str"
    /\ val.v[2].t = "arr"
    /\ val.v[3].t = "obj"

OobCall(val) == [text |-> PyNone, oob |-> val]
TextCall(chars) == [text |-> Str(chars), oob |-> Absent]

(***************************************************************************)
(* C1: whatever disconnect() and connectionLost() calls a connection has   *)
(* seen, sessionhandler.disconnect has been called exactly once for it.    *)
(* The code has no guard: every call unregisters again.                    *)
(***************************************************************************)
C1_UnregisteredExactlyOnce ==
    (last.op \in {"disconnect", "connectionLost"}) => unregistered = 1

(***************************************************************************)
(* C2: a dataReceived call that starts after the connection was            *)
(* disconnected makes no call to sessionhandler.data_in.                   *)
(***************************************************************************)
C2_NoRoutingAfterDisconnect ==
    (last.op = "dataReceived" /\ WasDisconnected) => Len(routedNow) = 0

(***************************************************************************)
(* C3: a data_out call that starts after the connection was disconnected   *)
(* writes no line, whatever its text and options.                          *)
(***************************************************************************)
C3_SendAfterDisconnectDropped ==
    (last.op = "data_out" /\ WasDisconnected) => Len(wireNow) = 0

(***************************************************************************)
(* C4: for "OOB" followed by text that is not JSON, dataReceived routes    *)
(* nothing, lets no exception escape and records one diagnostic.           *)
(***************************************************************************)
C4_InvalidJsonLoggedNotRaised ==
    (OobFrame /\ ~Decoded.ok) =>
        /\ Len(routedNow) = 0
        /\ escaped = "none"
        /\ Len(loggedNow) = 1

(***************************************************************************)
(* C5: an OOB payload that is one instruction [name, args, kwargs], not    *)
(* wrapped in an array, is routed in exactly one call carrying the triple. *)
(***************************************************************************)
C5_SingleInstructionOneCall ==
    (OobFrame /\ Decoded.ok /\ IsInstruction(Decoded.val)) =>
        /\ Len(routedNow) = 1
        /\ routedNow[1] = OobCall(Decoded.val)

(***************************************************************************)
(* C6: an OOB payload that is an array of instructions is routed one call  *)
(* per element, in the order of the array, none dropped or duplicated; for *)
(* the frame of the specification's example the calls are f(1,2), g(x=1).  *)
(***************************************************************************)
AllInstructions(val) ==
    val.t = "arr" /\ \A i \in 1..Len(val.v) : IsInstruction(val.v[i])

F_two_calls ==
    << OobCall(Arr(<<Str(<<"f">>), Arr(<<Num(<<"1">>), Num(<<"2">>)>>), Obj(<<>>)>>)),
       OobCall(Arr(<<Str(<<"g">>), Arr(<<>>),
                     Obj(<<[k |-> <<"x">>, val |-> Num(<<"1">>)]>>)>>)) >>

C6_ArrayRoutedInOrder ==
    /\ (OobFrame /\ Decoded.ok /\ AllInstructions(Decoded.val)) =>
          /\ Len(routedNow) = Len(Decoded.val.v)
          /\ \A i \in 1..Len(routedNow) : routedNow[i] = OobCall(Decoded.val.v[i])
          /\ escaped = "none"
    /\ (OobFrame /\ last.text.v = F_two) => routedNow = F_two_calls

C6_Witness ==
    /\ OobFrame
    /\ last.text.v = F_three
    /\ AllInstructions(Decoded.val)
    /\ Len(routedNow) = 3
    /\ routedNow[1].oob.v[1] = Str(<<"h">>)

(***************************************************************************)
(* C7: an OOB array holding an element that is not an instruction is       *)
(* discarded whole: nothing of it is routed and a diagnostic is logged.    *)
(***************************************************************************)
C7_NonConformingArrayDiscarded ==
    (/\ OobFrame
     /\ Decoded.ok
     /\ Decoded.val.t = "arr"
     /\ ~IsInstruction(Decoded.val)
     /\ ~AllInstructions(Decoded.val)) =>
        /\ Len(routedNow) = 0
        /\ Len(loggedNow) = 1

(***************************************************************************)
(* C8: an OOB payload that is valid JSON but no array (an object, a        *)
(* number, a string, null) routes nothing, is logged once as malformed,    *)
(* lets no exception escape, and neither unregisters nor releases the      *)
(* connection.                                                             *)
(***************************************************************************)
C8_NonArrayLoggedAndDropped ==
    (OobFrame /\ Decoded.ok /\ Decoded.val.t # "arr") =>
        /\ Len(routedNow) = 0
        /\ loggedNow = <<Decoded.val>>
        /\ escaped = "none"
        /\ unregistered = last.unregistered0
        /\ released = last.released0
        /\ Len(wireNow) = 0

C8_Witness ==
    /\ OobFrame
    /\ last.text.v = F_object
    /\ loggedNow = <<Obj(<<>>)>>
    /\ unregistered = 0

(***************************************************************************)
(* C9: on a connected connection, a frame whose first 3 characters are not *)
(* "OOB" (the empty frame and shorter ones included) makes exactly one     *)
(* routing call, with the frame unchanged as text and no oob argument.     *)
(***************************************************************************)
C9_PlainTextRoutedUnmodified ==
    (/\ last.op = "dataReceived"
     /\ ~WasDisconnected
     /\ Take(last.text.v, 3) # OOB) =>
        /\ routedNow = <<TextCall(last.text.v)>>
        /\ escaped = "none"
        /\ Len(loggedNow) = 0

C9_Witness ==
    /\ last.op = "dataReceived"
    /\ ~WasDisconnected
    /\ last.text.v = F_short
    /\ routedNow = <<TextCall(<<"O", "O">>)>>

(***************************************************************************)
(* C10: when to_str fails in data_out, the call writes exactly one line,   *)
(* the description of the failure, and nothing else.                       *)
(***************************************************************************)
C10_EncodingFailureOneLine ==
    (/\ last.op = "data_out"
     /\ Truthy(last.text)
     /\ ~to_str(last.text.v).ok) =>
        wireNow = <<to_str(last.text.v).err>>

\* the text data_out works on: text if text else ""
BaseText == IF Truthy(last.text) THEN last.text.v ELSE <<>>

(***************************************************************************)
(* C11: when to_str or parse_html fails during data_out, no exception      *)
(* leaves data_out and the connection is neither unregistered nor          *)
(* released.                                                               *)
(***************************************************************************)
C11_SendFailureContained ==
    (/\ last.op = "data_out"
     /\ \/ ~to_str(BaseText).ok
        \/ (~last.raw /\ parse_html_raises(BaseText))) =>
        /\ escaped = "none"
        /\ unregistered = last.unregistered0
        /\ released = last.released0

\* the lines data_out is to write for the most recent call
OobLine == OOB \o json_dumps(oobstruct_parser(last.oob))
TextLine == IF last.raw THEN BaseText ELSE parse_html(BaseText, last.nomarkup)
IsOobLine(line) == Take(line, 3) = OOB

(***************************************************************************)
(* C12: a data_out call given both an oob payload and a text writes        *)
(* exactly two lines, the "OOB" line first and the text line second.       *)
(***************************************************************************)
C12_OobLineThenTextLine ==
    (/\ last.op = "data_out"
     /\ last.oob.t # "absent"
     /\ Truthy(last.text)) =>
        /\ Len(wireNow) = 2
        /\ IsOobLine(wireNow[1])
        /\ ~IsOobLine(wireNow[2])

(***************************************************************************)
(* C13: data_out with an oob payload and no text writes exactly one "OOB"  *)
(* line, the JSON of the structure oobstruct_parser builds from the        *)
(* payload, and no text line with content: nothing more, or one empty line *)
(* after it.  For the payload "f" the line is OOB[["f", [], {}]].          *)
(***************************************************************************)
\* OOB[["f", [], {}]]
P_cmd_line ==
    <<"O", "O", "B", "[", "[", "\"", "f", "\"", ",", " ", "[", "]", ",", " ",
      "{", "}", "]", "]">>

C13_OobOnlySend ==
    (/\ last.op = "data_out"
     /\ last.text.t = "none"
     /\ last.oob.t # "absent") =>
        /\ wireNow = <<OobLine>> \/ wireNow = <<OobLine, <<>>>>
        /\ last.oob.t = "str" => wireNow[1] = P_cmd_line
        /\ escaped = "none"

C13_Witness ==
    /\ last.op = "data_out"
    /\ last.text.t = "none"
    /\ last.oob.t = "arr"
    /\ Len(wireNow) = 2
    /\ IsOobLine(wireNow[1])
    /\ wireNow[2] = <<>>

(***************************************************************************)
(* C14: data_out with raw true and no oob payload writes exactly one line, *)
(* the text as supplied, untransformed, also when nomarkup is true.        *)
(***************************************************************************)
C14_RawSentVerbatim ==
    (/\ last.op = "data_out"
     /\ last.raw
     /\ last.oob.t = "absent") =>
        wireNow = <<BaseText>>

(***************************************************************************)
(* C15: with raw false, the text line data_out writes is parse_html of the *)
(* text, in strip mode exactly when nomarkup is true: "{rhi{n" goes out as *)
(* "hi" with nomarkup and as "<span>hi</span>" without.  (When parse_html  *)
(* raises, no text line is written.)                                       *)
(***************************************************************************)
C15_MarkupModeFollowsNomarkup ==
    (last.op = "data_out" /\ ~last.raw) =>
        IF parse_html_raises(BaseText)
        THEN \A i \in 1..Len(wireNow) :
                IsOobLine(wireNow[i]) \/ wireNow[i] = EncodeError
        ELSE /\ Len(wireNow) >= 1
             /\ wireNow[Len(wireNow)] = parse_html(BaseText, last.nomarkup)
             /\ (BaseText = T_hi /\ last.nomarkup) =>
                    wireNow[Len(wireNow)] = <<"h", "i">>
             /\ (BaseText = T_hi /\ ~last.nomarkup) =>
                    wireNow[Len(wireNow)] = <<"<span>", "h", "i", "</span>">>

C15_Witness ==
    /\ last.op = "data_out"
    /\ ~last.raw
    /\ last.nomarkup
    /\ BaseText = T_hi
    /\ wireNow = << <<"h", "i">> >>

(***************************************************************************)
(* C16: when the structure oobstruct_parser builds from an oob payload is  *)
(* a list of (name, args, kwargs) instructions, dataReceived of the "OOB"  *)
(* line data_out wrote for it routes exactly those instructions, in the    *)
(* order of the list.                                                      *)
(***************************************************************************)
C16_OobRoundTrip ==
    (/\ last.op = "echo"
     /\ IsOobLine(last.text.v)
     /\ AllInstructions(oobstruct_parser(last.oob))) =>
        LET sent == oobstruct_parser(last.oob).v
        IN  /\ Len(routedNow) = Len(sent)
            /\ \A i \in 1..Len(routedNow) : routedNow[i] = OobCall(sent[i])
            /\ escaped = "none"
            /\ Len(loggedNow) = 0

C16_Witness ==
    /\ last.op = "echo"
    /\ IsOobLine(last.text.v)
    /\ last.oob.t = "arr"
    /\ Len(routedNow) = 2
    /\ routedNow[1].oob.v[1] = Str(<<"f">>)
    /\ routedNow[2].oob.v[1] = Str(<<"g">>)

(***************************************************************************)
(* C17: disconnect on a connection that is already disconnected does       *)
(* nothing: no line is written (with or without a reason), the session     *)
(* handler is not asked to unregister again and the transport is not       *)
(* released again.                                                         *)
(***************************************************************************)
C17_SecondDisconnectNoOp ==
    (last.op = "disconnect" /\ WasDisconnected) =>
        /\ Len(wireNow) = 0
        /\ unregistered = last.unregistered0
        /\ released = last.released0
        /\ Len(eventsNow) = 0

(***************************************************************************)
(* C18: disconnect on a connected connection with a non-empty reason       *)
(* writes the reason as a text line, then unregisters from the session     *)
(* handler, then releases the transport; without a reason it writes        *)
(* nothing; and the handler call that follows a disconnect writes no       *)
(* further line, so that the reason line stays the last one.               *)
(***************************************************************************)
C18_ReasonLineThenTeardown ==
    /\ (last.op = "disconnect" /\ ~WasDisconnected /\ Truthy(last.text)) =>
          /\ eventsNow = <<"sendLine", "sessionhandler.disconnect",
                           "transport.loseconnection">>
          /\ wireNow = <<parse_html(last.text.v, FALSE)>>
    /\ (last.op = "disconnect" /\ ~WasDisconnected /\ ~Truthy(last.text)) =>
          /\ eventsNow = <<"sessionhandler.disconnect", "transport.loseconnection">>
          /\ Len(wireNow) = 0
    /\ (last.op0 = "disconnect" /\ WasDisconnected) => Len(wireNow) = 0

(***************************************************************************)
(* C19: a frame whose first 3 characters are "OOB" is never routed as      *)
(* text, whatever follows the prefix: no routing call made for it has a    *)
(* text argument.                                                          *)
(***************************************************************************)
C19_PrefixedFrameNeverText ==
    (last.op \in {"dataReceived", "echo"} /\ Take(last.text.v, 3) = OOB) =>
        \A i \in 1..Len(routedNow) :
            /\ routedNow[i].text.t = "none"
            /\ routedNow[i].oob.t # "absent"

C19_Witness ==
    /\ OobFrame
    /\ last.text.v = F_viously
    /\ Len(routedNow) = 0
    /\ escaped = "UnboundLocalError"

(***************************************************************************)
(* C20: the session handler sees the routing calls in frame arrival order. *)
(* Every step keeps the calls already made where they are and adds new     *)
(* ones only after them; and whatever the frames before it were (malformed *)
(* ones included), a text frame adds its one text call and an array of     *)
(* instructions adds its instructions in array order.                      *)
(***************************************************************************)
C20_ArrivalOrderKept ==
    [][/\ Len(routed') >= Len(routed)
       /\ SubSeq(routed', 1, Len(routed)) = routed
       /\ (last'.n = last.n + 1 /\ last'.op = "dataReceived") =>
             LET f == last'.text.v
                 r == json_loads(Drop(f, 3))
                 added == SubSeq(routed', Len(routed) + 1, Len(routed'))
             IN  /\ Take(f, 3) # OOB => added = <<TextCall(f)>>
                 /\ (Take(f, 3) = OOB /\ r.ok /\ AllInstructions(r.val)) =>
                       /\ Len(added) = Len(r.val.v)
                       /\ \A i \in 1..Len(added) : added[i] = OobCall(r.val.v[i])
      ]_vars

\* "look", then a frame json.loads rejects, then the two-instruction array
C20_Witness ==
    /\ last.n = 3
    /\ last.op = "dataReceived"
    /\ last.op0 = "dataReceived"
    /\ last.escaped0 = "UnboundLocalError"
    /\ last.text.v = F_two
    /\ Len(routed) = 3
    /\ routed[1] = TextCall(F_look)
    /\ routedNow = F_two_calls

====
